---- MODULE Spec2Model ----
(***************************************************************************)
(* Model of src/app.py: a Streamlit script that loads eight CSV files and  *)
(* derives display tables from them (a join, a correlation, two sorts, a   *)
(* filter and a pivot) between render calls.  One run of the script is a   *)
(* sequence of statement blocks; pc is the position in the script.         *)
(*                                                                         *)
(* Numbers: every float column is modelled by integers.  Weights are in    *)
(* units of 1/TotalWeight (a column "sums to 1.0" when it sums to          *)
(* TotalWeight), Lambda is in units of 1e-4 (the threshold 0.0001 of line  *)
(* 83 is LambdaThreshold = 1), the other columns are plain small integers. *)
(***************************************************************************)
EXTENDS Integers, Sequences, FiniteSets, TLC

(* ---------------------------- bounds ----------------------------------- *)
MaxRows == 3
MaxID == 2
MaxParamRows == 2
TotalWeight == 2

(* ----------------------- program constants ----------------------------- *)
\* df_params['Lambda'] < 0.0001, in units of 1e-4
LambdaThreshold == 1

F_SIG == "raw_signals.csv"
F_CORR == "correlation_matrix.csv"
F_NAV == "stock_cumulative_returns.csv"
F_PERF == "portfolio_performance.csv"
F_ATTR == "attribution_results.csv"
F_STOCKS == "stock_details.csv"
F_PARAMS == "parameter_search.csv"
F_WEIGHTS == "PortfolioBenchmarkWeights.csv"

\* the files load_data reads, in the order it reads them
LoadOrder == <<F_SIG, F_CORR, F_NAV, F_PERF, F_ATTR, F_STOCKS, F_PARAMS>>

AllFiles == {LoadOrder[i] : i \in 1..Len(LoadOrder)} \cup {F_WEIGHTS}

\* the options of st.radio("Select Metric:", ...)
Metrics == {"Sharpe", "Active_Return"}

VARIABLES
    files,        \* the CSV files present in the working directory
    csv,          \* file name -> the table the file holds
    cache,        \* st.cache_data memo of load_data: << >> or <<tables>>
    pc,           \* position in the script
    err,          \* << >>, or <<exception type, detail>> once the run failed
    rendered,     \* the Streamlit calls made so far in this run, in order
    df_sig, df_corr, df_stock_nav, df_perf, df_attr, df_stocks, df_params,
    df_weights,   \* line 30
    df_ic, ic,    \* lines 49-50
    ic_label,     \* the value handed to st.metric, line 51
    df_sorted,    \* line 68
    categoryarray,\* line 70
    metric,       \* line 82
    df_filtered,  \* line 83
    pivot,        \* line 85
    df_disp       \* lines 115-118

loaded == <<df_sig, df_corr, df_stock_nav, df_perf, df_attr, df_stocks, df_params>>
derived == <<df_weights, df_ic, ic, ic_label, df_sorted, categoryarray, metric,
             df_filtered, pivot, df_disp>>
vars == <<files, csv, cache, pc, err, rendered, loaded, derived>>

(* ---------------------------- helpers ---------------------------------- *)
Range(s) == {s[i] : i \in 1..Len(s)}

RECURSIVE SumSeq(_)
SumSeq(s) == IF s = << >> THEN 0 ELSE Head(s) + SumSeq(Tail(s))

Column(df, c) == [i \in 1..Len(df) |-> df[i][c]]

RECURSIVE Concat(_)
Concat(ss) == IF ss = << >> THEN << >> ELSE Head(ss) \o Concat(Tail(ss))

\* all tables of one to n rows drawn from rowSet
Tables(rowSet, n) == UNION {[1..k -> rowSet] : k \in 1..n}

IsPermutation(a, b) ==
    /\ Len(a) = Len(b)
    /\ \A r \in Range(a) \cup Range(b) :
          Cardinality({i \in 1..Len(a) : a[i] = r})
              = Cardinality({i \in 1..Len(b) : b[i] = r})

\* index permutations of 1..n
Perms(n) == {p \in [1..n -> 1..n] : \A i, j \in 1..n : p[i] = p[j] => i = j}

(* ------------------------- the derived views --------------------------- *)

\* line 30: read_csv(weights).merge(df_sig[['Industry']], left_on='ID',
\* right_index=True).  merge defaults to how='inner': a weights row appears
\* once per signal row that carries its ID (left order, then right order),
\* so a row with no match is left out and a row with k matches appears k times.
MergeMatches(w, sig) ==
    LET hits == SelectSeq(sig, LAMBDA s : s.ID = w.ID)
    IN  [k \in 1..Len(hits) |->
            [ID |-> w.ID, WeightBm |-> w.WeightBm, WeightPf |-> w.WeightPf,
             Industry |-> hits[k].Industry]]

MergeIndustry(weights, sig) ==
    Concat([i \in 1..Len(weights) |-> MergeMatches(weights[i], sig)])

\* line 49: df_sig[['Alpha_Signal','Industry']].merge(df_stocks[['Realized_Ret']],
\* left_index=True, right_index=True), again an inner join, on the ID index
IcMatches(s, stocks) ==
    LET hits == SelectSeq(stocks, LAMBDA t : t.ID = s.ID)
    IN  [k \in 1..Len(hits) |->
            [ID |-> s.ID, Alpha_Signal |-> s.Alpha_Signal, Industry |-> s.Industry,
             Realized_Ret |-> hits[k].Realized_Ret]]

MergeRealized(sig, stocks) ==
    Concat([i \in 1..Len(sig) |-> IcMatches(sig[i], stocks)])

\* line 50: Series.corr, Pearson.  With n rows, r = cov / sqrt(vx * vy) where
\* cov = n*Sxy - Sx*Sy, vx = n*Sxx - Sx^2, vy = n*Syy - Sy^2.  pandas returns
\* NaN when fewer than two rows are left or a variance is zero (0/0); it does
\* not raise.  r is kept exactly as the pair (num, den2): r = num / sqrt(den2).
Corr(xs, ys) ==
    LET n   == Len(xs)
        sx  == SumSeq(xs)
        sy  == SumSeq(ys)
        sxx == SumSeq([i \in 1..n |-> xs[i] * xs[i]])
        syy == SumSeq([i \in 1..n |-> ys[i] * ys[i]])
        sxy == SumSeq([i \in 1..n |-> xs[i] * ys[i]])
        vx  == n * sxx - sx * sx
        vy  == n * syy - sy * sy
    IN  IF n < 2 \/ vx = 0 \/ vy = 0
        THEN [nan |-> TRUE, num |-> 0, den2 |-> 1]
        ELSE [nan |-> FALSE, num |-> n * sxy - sx * sy, den2 |-> vx * vy]

\* 2^k modulo 125
RECURSIVE Pow2Mod125(_)
Pow2Mod125(k) == IF k = 0 THEN 1 ELSE (2 * Pow2Mod125(k - 1)) % 125

\* The float that stores p/2000, p odd and not a multiple of 125 (so p/2000
\* is no binary fraction), lies above p/2000 exactly when this holds.  With
\* 2^e <= p/125 < 2^(e+1) the 53-bit significand is p * 2^(52-e) / 125
\* rounded to the nearest integer, and it is rounded up when the remainder
\* of that division exceeds 125/2.
StoredAbove(p) ==
    LET e == CHOOSE x \in -7..3 :
                 IF x >= 0 THEN /\ 125 * (2^x) <= p
                                /\ p < 125 * (2^(x + 1))
                 ELSE /\ 125 <= p * (2^(0 - x))
                      /\ p * (2^(0 - x)) < 250
    IN  ((p % 125) * Pow2Mod125(52 - e)) % 125 > 62

\* line 51: f"{ic:.3f}".  NaN formats as "nan"; otherwise the sign and the
\* thousandths nearest to the float |r|.  up is the result of rounding the
\* exact value half up: up - 1/2 <= 1000*|r| < up + 1/2.  When 1000*|r| is
\* exactly up - 1/2 the float decides: a binary fraction (|r| = k/16) is
\* stored exactly and Python rounds the tie to the even neighbour; any other
\* value is stored slightly off and goes to the side the float lies on.
Format3f(r) ==
    IF r.nan THEN [text |-> "nan", neg |-> FALSE, milli |-> 0]
    ELSE LET up == CHOOSE m \in 0..1000 :
                      /\ m > 0 => (2*m - 1) * (2*m - 1) * r.den2
                                     <= 4000000 * r.num * r.num
                      /\ 4000000 * r.num * r.num
                                     < (2*m + 1) * (2*m + 1) * r.den2
             tie == /\ up > 0
                    /\ (2*up - 1) * (2*up - 1) * r.den2 = 4000000 * r.num * r.num
             p == 2 * up - 1
         IN  [text |-> "number", neg |-> r.num < 0,
              milli |-> IF ~tie THEN up
                        ELSE IF p % 125 = 0
                             THEN (IF up % 2 = 0 THEN up ELSE up - 1)
                             ELSE (IF StoredAbove(p) THEN up ELSE up - 1)]

\* lines 68 and 118: DataFrame.sort_values(col, ascending=...).  The default
\* kind='quicksort' is not a stable sort: the result is ordered by the key,
\* and the relative order of rows with equal keys is whatever the sort
\* routine of the installed numpy leaves (an introsort or a SIMD sorting
\* network, depending on version, CPU and table size).  Every key-ordered
\* permutation of the rows is therefore a possible result.
KeyOrdered(df, col, ascending) ==
    \A i \in 1..Len(df) - 1 :
        IF ascending THEN df[i][col] <= df[i + 1][col]
                     ELSE df[i][col] >= df[i + 1][col]

SortValues(df, col, ascending) ==
    LET n == Len(df)
        outs == {[i \in 1..n |-> df[p[i]]] : p \in Perms(n)}
    IN  {out \in outs : KeyOrdered(out, col, ascending)}

\* line 83: df_params[df_params['Lambda'] < 0.0001]
FilterLambda(params) == SelectSeq(params, LAMBDA r : r.Lambda < LambdaThreshold)

\* a pivot that never sees a duplicate (what pivot_table or a dict of cells
\* would do: one row silently wins the cell)
NoDuplicateCheck(df) == FALSE

\* line 85: DataFrame.pivot(index='Gamma', columns='Limit', values=metric).
\* pandas raises ValueError("Index contains duplicate entries, cannot
\* reshape") when two rows share an (index, columns) pair.
HasDuplicateCells(df) ==
    \E i, j \in 1..Len(df) :
        i < j /\ df[i].Gamma = df[j].Gamma /\ df[i].Limit = df[j].Limit

\* the reshaped table: one row per Gamma, one column per Limit; a cell is
\* <<v>> for the row that maps to it and << >> (NaN) when no row does
Pivot(df, m) ==
    LET gs == {df[i].Gamma : i \in 1..Len(df)}
        ls == {df[i].Limit : i \in 1..Len(df)}
    IN  [index |-> gs, columns |-> ls,
         cell |-> [k \in gs \X ls |->
                     LET src == {i \in 1..Len(df) :
                                    df[i].Gamma = k[1] /\ df[i].Limit = k[2]}
                     IN  IF src = {} THEN << >>
                         ELSE <<df[CHOOSE i \in src : TRUE][m]>>]]

\* the split with ge(0) in place of gt(0)
PositionNonStrict(active_weight) ==
    IF active_weight >= 0 THEN "Overweight" ELSE "Underweight"

\* line 117: df_disp['Active_Weight'].gt(0).map({True: "Overweight",
\* False: "Underweight"})
Position(active_weight) ==
    IF active_weight > 0 THEN "Overweight" ELSE "Underweight"

WithPosition(df) ==
    [i \in 1..Len(df) |->
        [ID |-> df[i].ID, Industry |-> df[i].Industry,
         Realized_Ret |-> df[i].Realized_Ret,
         Active_Weight |-> df[i].Active_Weight,
         Contribution |-> df[i].Contribution,
         Position |-> Position(df[i].Active_Weight)]]

(* --------------------------- the inputs -------------------------------- *)
IndustryOf(id) == IF id % 2 = 1 THEN "Energy" ELSE "Tech"

SigRow(id, a) == [ID |-> id, Industry |-> IndustryOf(id), Alpha_Signal |-> a]

StockRow(id, r, w, c) ==
    [ID |-> id, Industry |-> IndustryOf(id), Realized_Ret |-> r,
     Active_Weight |-> w, Contribution |-> c]

ParamRow(g, l, lam, s) ==
    [Gamma |-> g, Limit |-> l, Lambda |-> lam, Sharpe |-> s,
     Active_Return |-> s + 1, Active_Risk |-> 1]

WeightRow(id, bm, pf) == [ID |-> id, WeightBm |-> bm, WeightPf |-> pf]

BaseSig == <<SigRow(1, 0), SigRow(2, 1)>>
BaseStocks == <<StockRow(1, 0, 1, 1), StockRow(2, 1, -1, 0)>>
BaseParams == <<ParamRow(1, 1, 0, 1), ParamRow(1, 2, 0, 2)>>
BaseWeights == <<WeightRow(1, 1, TotalWeight - 1), WeightRow(2, TotalWeight - 1, 1)>>
BaseCorr == <<[ID |-> 1, r |-> <<100, 0>>], [ID |-> 2, r |-> <<0, 100>>]>>
BaseNav == <<[Date |-> 1, nav |-> <<100, 100>>], [Date |-> 2, nav |-> <<101, 99>>]>>
\* the columns lines 99 and 104 read; the last one is named 'Active Return'
BasePerf == <<[Date |-> 1, Benchmark |-> 100, Original |-> 100, Optimized |-> 100,
               Naive_Alpha |-> 100] @@ ("Active Return" :> 0)>>
BaseAttr == <<[Sector |-> "Energy", Selection |-> 1, Allocation |-> 0, Interaction |-> 0]>>

BaseCsv ==
    [f \in AllFiles |->
        CASE f = F_SIG -> BaseSig
          [] f = F_CORR -> BaseCorr
          [] f = F_NAV -> BaseNav
          [] f = F_PERF -> BasePerf
          [] f = F_ATTR -> BaseAttr
          [] f = F_STOCKS -> BaseStocks
          [] f = F_PARAMS -> BaseParams
          [] OTHER -> BaseWeights]

IDs == 1..MaxID
\* the values a signal, a realized return or a contribution takes
Vals == {0, 1}
\* active weights on both sides of zero
ActiveWeights == {-1, 0, 1}

\* signal tables: any order of rows, IDs may repeat (read_csv does not
\* check that the index is unique)
SigTables == Tables({SigRow(id, a) : id \in IDs, a \in Vals}, MaxRows)

\* stock tables that vary the realized return
RealizedTables == Tables({StockRow(id, r, 0, 0) : id \in IDs, r \in Vals}, MaxRows)

\* stock tables that vary the contribution and the order of the IDs
ContributionTables ==
    Tables({StockRow(id, 0, 1, c) : id \in IDs, c \in Vals}, MaxRows)

\* stock tables that vary the active weight around zero
ActiveWeightTables ==
    UNION {{[i \in 1..k |-> StockRow(i, 0, w[i], 0)] :
               w \in [1..k -> ActiveWeights]} : k \in 1..MaxRows}

\* the example of the specification, Active_Weight in units of 1e-2 and
\* Contribution in units of 1e-4
ExampleStocks ==
    <<StockRow(1, 0, 2, 10), StockRow(2, 1, -1, -20),
      StockRow(3, 0, 0, 5), StockRow(4, 1, 5, 40)>>

\* weight tables: one row per holding, IDs ascending, each column summing
\* to TotalWeight (WeightPf is WeightBm read backwards)
WeightTables ==
    {w \in Tables({WeightRow(id, bm, 0) : id \in IDs, bm \in 0..TotalWeight}, MaxID) :
        /\ \A i \in 1..Len(w) - 1 : w[i].ID < w[i + 1].ID
        /\ SumSeq(Column(w, "WeightBm")) = TotalWeight}

WithPf(w) ==
    [i \in 1..Len(w) |-> WeightRow(w[i].ID, w[i].WeightBm, w[Len(w) + 1 - i].WeightBm)]

\* signal tables that vary only which IDs are present, and how often
SigIdTables == Tables({SigRow(id, 0) : id \in IDs}, MaxRows)

\* parameter grids: Lambda on both sides of the threshold, at least one
\* row below it, rows that may share (Gamma, Limit)
ParamTables ==
    {t \in Tables({ParamRow(g, l, lam, s) :
                      g \in {1, 2}, l \in {1, 2}, lam \in {0, 1}, s \in {1, 2}},
                  MaxParamRows) :
        \E i \in 1..Len(t) : t[i].Lambda < LambdaThreshold}

Inputs ==
    {[files |-> fs, csv |-> BaseCsv] : fs \in SUBSET AllFiles}
    \cup {[files |-> AllFiles, csv |-> [BaseCsv EXCEPT ![F_SIG] = t]] : t \in SigTables}
    \cup {[files |-> AllFiles, csv |-> [BaseCsv EXCEPT ![F_STOCKS] = t]] :
             t \in RealizedTables \cup ContributionTables
                     \cup ActiveWeightTables \cup {ExampleStocks}}
    \cup {[files |-> AllFiles, csv |-> [BaseCsv EXCEPT ![F_PARAMS] = t]] : t \in ParamTables}
    \cup {[files |-> AllFiles,
           csv |-> [BaseCsv EXCEPT ![F_WEIGHTS] = WithPf(w), ![F_SIG] = t]] :
             w \in WeightTables, t \in SigIdTables}

(* ------------------------------ Init ----------------------------------- *)
\* no module-level name of the script is bound yet
Unbound ==
    /\ df_sig = << >> /\ df_corr = << >> /\ df_stock_nav = << >>
    /\ df_perf = << >> /\ df_attr = << >> /\ df_stocks = << >>
    /\ df_params = << >> /\ df_weights = << >> /\ df_ic = << >>
    /\ ic = << >> /\ ic_label = << >> /\ df_sorted = << >>
    /\ categoryarray = << >> /\ metric = << >> /\ df_filtered = << >>
    /\ pivot = << >> /\ df_disp = << >>

Init ==
    /\ \E inp \in Inputs : files = inp.files /\ csv = inp.csv
    /\ cache = << >>
    /\ pc = "config"
    /\ err = << >>
    /\ rendered = << >>
    /\ Unbound

(* ----------------------------- actions --------------------------------- *)
Render(calls) == rendered' = rendered \o calls

Fail(type, detail) == pc' = "failed" /\ err' = <<type, detail>>

\* line 5
SetPageConfig ==
    /\ pc = "config"
    /\ pc' = "load"
    /\ Render(<<"set_page_config">>)
    /\ UNCHANGED <<files, csv, cache, err, loaded, derived>>

\* the first file of load_data that pd.read_csv cannot open, if any
MissingOf(order) ==
    SelectSeq(order, LAMBDA f : f \notin files)

ReadAll ==
    [sig |-> csv[F_SIG], corr |-> csv[F_CORR], stock_nav |-> csv[F_NAV],
     perf |-> csv[F_PERF], attr |-> csv[F_ATTR], stocks |-> csv[F_STOCKS],
     params |-> csv[F_PARAMS]]

Bind(t) ==
    /\ df_sig' = t.sig /\ df_corr' = t.corr /\ df_stock_nav' = t.stock_nav
    /\ df_perf' = t.perf /\ df_attr' = t.attr /\ df_stocks' = t.stocks
    /\ df_params' = t.params

\* lines 7-19: load_data under st.cache_data.  A memoised result is returned
\* (as a fresh copy) without touching the files; otherwise the seven files
\* are read in order and the first missing one raises FileNotFoundError.
LoadData ==
    /\ pc = "load"
    /\ IF cache # << >>
       THEN /\ Bind(cache[1])
            /\ pc' = "header"
            /\ UNCHANGED <<cache, err>>
       ELSE IF MissingOf(LoadOrder) # << >>
       THEN /\ Fail("FileNotFoundError", Head(MissingOf(LoadOrder)))
            /\ UNCHANGED <<cache, loaded>>
       ELSE /\ cache' = <<ReadAll>>
            /\ Bind(ReadAll)
            /\ pc' = "header"
            /\ UNCHANGED err
    /\ UNCHANGED <<files, csv, rendered, derived>>

\* lines 21-29
Header ==
    /\ pc = "header"
    /\ pc' = "weights"
    /\ Render(<<"title", "divider", "tabs", "subheader", "write">>)
    /\ UNCHANGED <<files, csv, cache, err, loaded, derived>>

\* line 30
ReadWeights ==
    /\ pc = "weights"
    /\ IF F_WEIGHTS \notin files
       THEN /\ Fail("FileNotFoundError", F_WEIGHTS)
            /\ UNCHANGED df_weights
       ELSE /\ df_weights' = MergeIndustry(csv[F_WEIGHTS], df_sig)
            /\ pc' = "sunburst"
            /\ UNCHANGED err
    /\ UNCHANGED <<files, csv, cache, rendered, loaded, df_ic, ic, ic_label,
                   df_sorted, categoryarray, metric, df_filtered, pivot, df_disp>>

\* lines 32-46: the two sunburst charts of df_weights
Sunbursts ==
    /\ pc = "sunburst"
    /\ pc' = "ic"
    /\ Render(<<"columns", "caption", "plotly_chart", "caption", "plotly_chart",
                "divider">>)
    /\ UNCHANGED <<files, csv, cache, err, loaded, derived>>

\* lines 48-51: the information coefficient and its st.metric
InformationCoefficient ==
    /\ pc = "ic"
    /\ pc' = "charts"
    /\ LET joined == MergeRealized(df_sig, df_stocks)
           r == Corr(Column(joined, "Alpha_Signal"), Column(joined, "Realized_Ret"))
       IN  /\ df_ic' = joined
           /\ ic' = <<r>>
           /\ ic_label' = <<Format3f(r)>>
    /\ Render(<<"write", "metric">>)
    /\ UNCHANGED <<files, csv, cache, err, loaded, df_weights, df_sorted,
                   categoryarray, metric, df_filtered, pivot, df_disp>>

\* lines 53-65: the scatter of df_ic and the line chart of df_stock_nav
SignalCharts ==
    /\ pc = "charts"
    /\ pc' = "rank"
    /\ Render(<<"plotly_chart", "divider", "columns", "write", "plotly_chart">>)
    /\ UNCHANGED <<files, csv, cache, err, loaded, derived>>

\* lines 67-71: df_sorted and the category axis taken from it
RankBySignal ==
    /\ pc = "rank"
    /\ pc' = "corr"
    /\ \E out \in SortValues(df_sig, "Alpha_Signal", TRUE) :
          /\ df_sorted' = out
          /\ categoryarray' = Column(out, "ID")
    /\ Render(<<"write", "plotly_chart">>)
    /\ UNCHANGED <<files, csv, cache, err, loaded, df_weights, df_ic, ic, ic_label,
                   metric, df_filtered, pivot, df_disp>>

\* lines 73-77
CorrelationMatrix ==
    /\ pc = "corr"
    /\ pc' = "select"
    /\ Render(<<"divider", "write", "plotly_chart">>)
    /\ UNCHANGED <<files, csv, cache, err, loaded, derived>>

\* lines 80-82: the radio returns the option the user has selected
SelectMetric ==
    /\ pc = "select"
    /\ pc' = "filter"
    /\ \E m \in Metrics : metric' = <<m>>
    /\ Render(<<"subheader", "radio">>)
    /\ UNCHANGED <<files, csv, cache, err, loaded, df_weights, df_ic, ic, ic_label,
                   df_sorted, categoryarray, df_filtered, pivot, df_disp>>

\* line 83
FilterParams ==
    /\ pc = "filter"
    /\ pc' = "pivot"
    /\ df_filtered' = FilterLambda(df_params)
    /\ UNCHANGED <<files, csv, cache, err, rendered, loaded, df_weights, df_ic, ic,
                   ic_label, df_sorted, categoryarray, metric, pivot, df_disp>>

\* lines 85-88: the pivot and its heat map
PivotGrid ==
    /\ pc = "pivot"
    /\ IF HasDuplicateCells(df_filtered)
       THEN /\ Fail("ValueError", "Index contains duplicate entries, cannot reshape")
            /\ UNCHANGED <<pivot, rendered>>
       ELSE /\ pivot' = <<Pivot(df_filtered, metric[1])>>
            /\ Render(<<"plotly_chart">>)
            /\ pc' = "frontier"
            /\ UNCHANGED err
    /\ UNCHANGED <<files, csv, cache, loaded, df_weights, df_ic, ic, ic_label,
                   df_sorted, categoryarray, metric, df_filtered, df_disp>>

\* lines 90-95
ActiveFrontier ==
    /\ pc = "frontier"
    /\ pc' = "perf"
    /\ Render(<<"divider", "write", "plotly_chart">>)
    /\ UNCHANGED <<files, csv, cache, err, loaded, derived>>

\* lines 97-105
Performance ==
    /\ pc = "perf"
    /\ pc' = "attr"
    /\ Render(<<"subheader", "plotly_chart", "write", "plotly_chart">>)
    /\ UNCHANGED <<files, csv, cache, err, loaded, derived>>

\* lines 108-113: df_attr.reset_index() is a new frame handed to px.bar
Attribution ==
    /\ pc = "attr"
    /\ pc' = "contrib"
    /\ Render(<<"subheader", "plotly_chart", "divider">>)
    /\ UNCHANGED <<files, csv, cache, err, loaded, derived>>

\* df_disp bound to df_stocks itself (no reset_index copy): the column
\* assignment of line 117 then lands in df_stocks
StocksAfterDisplayAliased(stocks) == WithPosition(stocks)

\* what lines 115-118 leave in df_stocks: reset_index() and sort_values()
\* return new frames, and the Position column of line 117 is assigned to
\* the frame reset_index() returned, so df_stocks keeps its rows
StocksAfterDisplay(stocks) == stocks

\* lines 114-118
PrepareContribution ==
    /\ pc = "contrib"
    /\ pc' = "table"
    /\ \E out \in SortValues(WithPosition(df_stocks), "Contribution", FALSE) :
          df_disp' = out
    /\ df_stocks' = StocksAfterDisplay(df_stocks)
    /\ Render(<<"subheader">>)
    /\ UNCHANGED <<files, csv, cache, err, df_sig, df_corr, df_stock_nav, df_perf,
                   df_attr, df_params, df_weights, df_ic, ic, ic_label, df_sorted,
                   categoryarray, metric, df_filtered, pivot>>

\* lines 120-129
RenderContribution ==
    /\ pc = "table"
    /\ pc' = "done"
    /\ Render(<<"dataframe">>)
    /\ UNCHANGED <<files, csv, cache, err, loaded, derived>>

\* Streamlit runs the script again from the top on the next interaction;
\* only the st.cache_data memo survives
Rerun ==
    /\ pc \in {"done", "failed"}
    /\ pc' = "config"
    /\ err' = << >>
    /\ rendered' = << >>
    /\ df_sig' = << >> /\ df_corr' = << >> /\ df_stock_nav' = << >>
    /\ df_perf' = << >> /\ df_attr' = << >> /\ df_stocks' = << >>
    /\ df_params' = << >> /\ df_weights' = << >> /\ df_ic' = << >>
    /\ ic' = << >> /\ ic_label' = << >> /\ df_sorted' = << >>
    /\ categoryarray' = << >> /\ metric' = << >> /\ df_filtered' = << >>
    /\ pivot' = << >> /\ df_disp' = << >>
    /\ UNCHANGED <<files, csv, cache>>

Next ==
    \/ SetPageConfig
    \/ LoadData
    \/ Header
    \/ ReadWeights
    \/ Sunbursts
    \/ InformationCoefficient
    \/ SignalCharts
    \/ RankBySignal
    \/ CorrelationMatrix
    \/ SelectMetric
    \/ FilterParams
    \/ PivotGrid
    \/ ActiveFrontier
    \/ Performance
    \/ Attribution
    \/ PrepareContribution
    \/ RenderContribution
    \/ Rerun

Spec == Init /\ [][Next]_vars

(* ------------------------ positions in a run --------------------------- *)
Steps == <<"config", "load", "header", "weights", "sunburst", "ic", "charts",
           "rank", "corr", "select", "filter", "pivot", "frontier", "perf",
           "attr", "contrib", "table", "done">>

StepIndex(p) == CHOOSE i \in 1..Len(Steps) : Steps[i] = p

\* the block at p has run to its end and the run went on
Past(p) == \E i \in (StepIndex(p) + 1)..Len(Steps) : pc = Steps[i]

\* the block the run failed in
FailedAt ==
    IF err[1] = "ValueError" THEN "pivot"
    ELSE IF err[2] = F_WEIGHTS THEN "weights" ELSE "load"

\* the block at p has been executed in this run, to its end or to its raise
Executed(p) ==
    \/ Past(p)
    \/ pc = "failed" /\ StepIndex(FailedAt) >= StepIndex(p)

\* the calls that put something on the page (st.set_page_config does not)
PageCalls == SelectSeq(rendered, LAMBDA c : c # "set_page_config")

StripPosition(df) ==
    [i \in 1..Len(df) |->
        [ID |-> df[i].ID, Industry |-> df[i].Industry,
         Realized_Ret |-> df[i].Realized_Ret,
         Active_Weight |-> df[i].Active_Weight,
         Contribution |-> df[i].Contribution]]

(* ------------------------------ claims --------------------------------- *)

\* a weight row whose ID no signal row carries
UnmatchedWeightRow ==
    \E i \in 1..Len(csv[F_WEIGHTS]) :
        \A j \in 1..Len(csv[F_SIG]) : csv[F_SIG][j].ID # csv[F_WEIGHTS][i].ID

\* C1: when a weight row's ID has no matching signal row, line 30 fails with
\* JoinMismatchError and yields no frame: the run never goes on past the
\* join, and the only way it has executed the join is by that error.
C1_JoinMismatchRaises ==
    (F_WEIGHTS \in files /\ UnmatchedWeightRow /\ Executed("weights"))
        => /\ pc = "failed"
           /\ err[1] = "JoinMismatchError"
           /\ df_weights = << >>

\* C2: a missing required file halts the run with an error that names the
\* file, and nothing has been put on the page before the failure; a run
\* with a file missing never completes.
C2_MissingFileBeforeRender ==
    /\ files # AllFiles => pc # "done"
    /\ (pc = "failed" /\ err[1] = "FileNotFoundError")
          => /\ err[2] \in AllFiles \ files
             /\ PageCalls = << >>

\* the rows of the parameter file that pass Lambda < 0.0001
KeptParams == SelectSeq(csv[F_PARAMS], LAMBDA r : r.Lambda < LambdaThreshold)

RowsOfCell(g, l) ==
    {i \in 1..Len(KeptParams) : KeptParams[i].Gamma = g /\ KeptParams[i].Limit = l}

DuplicateCell ==
    \E i \in 1..Len(KeptParams) :
        Cardinality(RowsOfCell(KeptParams[i].Gamma, KeptParams[i].Limit)) > 1

\* C3: once the pivot of line 85 has been executed, the run has failed with
\* the duplicate-entries error and holds no pivot exactly when two rows that
\* pass the Lambda filter share (Gamma, Limit); otherwise the pivot exists,
\* has one cell per (Gamma, Limit) of the kept rows, and every filled cell
\* is the metric value of the one kept row that maps to it.  Rows the
\* filter removes play no part.
C3_PivotDuplicateFails ==
    Executed("pivot") =>
        IF DuplicateCell
        THEN /\ pc = "failed"
             /\ err[1] = "ValueError"
             /\ pivot = << >>
             /\ rendered[Len(rendered)] = "radio"
        ELSE /\ Past("pivot")
             /\ pivot # << >>
             /\ DOMAIN pivot[1].cell = pivot[1].index \X pivot[1].columns
             /\ \A k \in DOMAIN pivot[1].cell :
                   IF pivot[1].cell[k] = << >>
                   THEN RowsOfCell(k[1], k[2]) = {}
                   ELSE /\ Cardinality(RowsOfCell(k[1], k[2])) = 1
                        /\ \A i \in RowsOfCell(k[1], k[2]) :
                              pivot[1].cell[k] = <<KeptParams[i][metric[1]]>>
             /\ \A i \in 1..Len(KeptParams) :
                   <<KeptParams[i].Gamma, KeptParams[i].Limit>> \in DOMAIN pivot[1].cell

\* C3 witness: the pivot failed on two kept rows of one cell whose Sharpe
\* values differ
C3_Witness ==
    /\ pc = "failed"
    /\ err[1] = "ValueError"
    /\ \E i, j \in 1..Len(KeptParams) :
          /\ i < j
          /\ KeptParams[i].Gamma = KeptParams[j].Gamma
          /\ KeptParams[i].Limit = KeptParams[j].Limit
          /\ KeptParams[i].Sharpe # KeptParams[j].Sharpe

\* the joined (Alpha_Signal, Realized_Ret) pairs have an undefined correlation
DegenerateIc ==
    \/ Len(df_ic) < 2
    \/ \A i, j \in 1..Len(df_ic) : df_ic[i].Alpha_Signal = df_ic[j].Alpha_Signal
    \/ \A i, j \in 1..Len(df_ic) : df_ic[i].Realized_Ret = df_ic[j].Realized_Ret

\* C4: with fewer than two matched rows or a constant series the information
\* coefficient fails with InsufficientDataError; NaN is never handed to the
\* IC metric.
C4_InsufficientDataRaises ==
    /\ (Executed("ic") /\ DegenerateIc)
          => pc = "failed" /\ err[1] = "InsufficientDataError"
    /\ ic_label # << >> => ic_label[1].text # "nan"

\* C5: after lines 115-118 every row of df_disp carries Position, which is
\* "Overweight" exactly when Active_Weight > 0 and "Underweight" otherwise,
\* and the rows of df_disp without Position are the rows of the stock table,
\* each once.  On the specification's example the labels are Overweight,
\* Underweight, Underweight, Overweight for IDs 1..4.
C5_PositionStrictSplit ==
    Past("contrib") =>
        /\ IsPermutation(StripPosition(df_disp), csv[F_STOCKS])
        /\ \A i \in 1..Len(df_disp) :
              /\ df_disp[i].Position \in {"Overweight", "Underweight"}
              /\ df_disp[i].Position = "Overweight" <=> df_disp[i].Active_Weight > 0
              /\ df_disp[i].Active_Weight = 0 => df_disp[i].Position = "Underweight"
        /\ csv[F_STOCKS] = ExampleStocks =>
              \A i \in 1..Len(df_disp) :
                  df_disp[i].Position =
                      <<"Overweight", "Underweight", "Underweight", "Overweight">>[df_disp[i].ID]

\* C5 witness: the example table has been labelled and ordered 4th, 1st,
\* 3rd, 2nd, its zero active weight labelled Underweight
C5_Witness ==
    /\ Past("contrib")
    /\ csv[F_STOCKS] = ExampleStocks
    /\ Column(df_disp, "ID") = <<4, 1, 3, 2>>
    /\ df_disp[3].Active_Weight = 0
    /\ df_disp[3].Position = "Underweight"

\* C6: df_disp is a permutation of the stock rows in descending order of
\* Contribution, rows of equal Contribution in ascending order of ID.
C6_ContributionOrderTiesByID ==
    Past("contrib") =>
        /\ IsPermutation(StripPosition(df_disp), csv[F_STOCKS])
        /\ \A i, j \in 1..Len(df_disp) :
              i < j => /\ df_disp[i].Contribution >= df_disp[j].Contribution
                       /\ df_disp[i].Contribution = df_disp[j].Contribution
                             => df_disp[i].ID <= df_disp[j].ID

\* C7: df_sorted (and the category axis taken from it) holds every signal
\* row once, in ascending order of Alpha_Signal, rows of equal Alpha_Signal
\* in ascending order of ID.
C7_SignalOrderTiesByID ==
    Past("rank") =>
        /\ IsPermutation(df_sorted, csv[F_SIG])
        /\ categoryarray = Column(df_sorted, "ID")
        /\ \A i, j \in 1..Len(df_sorted) :
              i < j => /\ df_sorted[i].Alpha_Signal <= df_sorted[j].Alpha_Signal
                       /\ df_sorted[i].Alpha_Signal = df_sorted[j].Alpha_Signal
                             => df_sorted[i].ID <= df_sorted[j].ID

\* C8: sorting df_sorted by Alpha_Signal again returns df_sorted itself,
\* row for row: it is the only result the sort can give.
C8_SortIdempotent ==
    Past("rank") => SortValues(df_sorted, "Alpha_Signal", TRUE) = {df_sorted}

\* C9: when the WeightBm and the WeightPf column of the weights file each
\* sum to 1, so do the two columns of the joined frame df_weights.
C9_JoinKeepsTotals ==
    (/\ Past("weights")
     /\ SumSeq(Column(csv[F_WEIGHTS], "WeightBm")) = TotalWeight
     /\ SumSeq(Column(csv[F_WEIGHTS], "WeightPf")) = TotalWeight)
        => /\ SumSeq(Column(df_weights, "WeightBm")) = TotalWeight
           /\ SumSeq(Column(df_weights, "WeightPf")) = TotalWeight

\* C10: from the end of load_data on, in every state of every run (failed
\* or not, whatever the metric), each of the seven loaded tables is the
\* table its file holds, and so is the memoised copy.
C10_LoadedTablesUnchanged ==
    (Past("load") \/ (pc = "failed" /\ FailedAt # "load")) =>
        /\ df_sig = csv[F_SIG]
        /\ df_corr = csv[F_CORR]
        /\ df_stock_nav = csv[F_NAV]
        /\ df_perf = csv[F_PERF]
        /\ df_attr = csv[F_ATTR]
        /\ df_stocks = csv[F_STOCKS]
        /\ df_params = csv[F_PARAMS]
        /\ cache = <<[sig |-> csv[F_SIG], corr |-> csv[F_CORR],
                      stock_nav |-> csv[F_NAV], perf |-> csv[F_PERF],
                      attr |-> csv[F_ATTR], stocks |-> csv[F_STOCKS],
                      params |-> csv[F_PARAMS]]>>

\* C10 witness: a completed run in which the display copy was reordered and
\* given a column while df_stocks still reads as loaded
C10_Witness ==
    /\ pc = "done"
    /\ Len(df_disp) = Len(df_stocks)
    /\ Len(df_stocks) >= 2
    /\ Column(df_disp, "ID") # Column(df_stocks, "ID")
    /\ df_stocks = csv[F_STOCKS]
====
